---- MODULE Spec2Model ----
(***************************************************************************)
(* Model of comProxy.cpp: a RingBuffer class (a bounded byte queue with    *)
(* two manual-reset events), the stdin/stdout pump threads, the overlapped *)
(* COM port driver (comRx, comTx, comEvent) and the main wait loop.        *)
(*                                                                         *)
(* Five specifications share the variables:                                *)
(*   SpecCalls  one RingBuffer of any capacity 1..MaxCapacity driven by    *)
(*              arbitrary addData/removeData calls (over-requests too);    *)
(*   SpecPipe   one RingBuffer with one producer thread and one consumer   *)
(*              thread that follow the calling convention of the pumps;    *)
(*   Spec       the whole program;                                         *)
(*   SpecNoTimeout  the whole program with a wait that never times out and *)
(*              a port that never completes an operation with zero bytes.  *)
(*   SpecTransmit  the whole program without failures of the port, of the  *)
(*              streams or of the wait, with fair threads.                 *)
(***************************************************************************)
EXTENDS Integers, Sequences, FiniteSets, TLC

\* ------------------------------------------------------------------ bounds
\* Largest RingBuffer capacity tried by SpecCalls and SpecPipe.
MaxCapacity == 4
\* Longest call history that SpecCalls records call by call.
MaxCalls == 2
\* Number of bytes the producer of SpecPipe writes in all.
MaxBytes == 8
\* Capacities of rxBuffer and of txBuffer in Spec (128 each in the source).
\* txBuffer gets the second byte: with it stdinReader can reach the end of
\* stdin while txBuffer still holds a byte, and a transfer can be partial.
RxCapacity == 1
TxCapacity == 2
\* Largest count kept of the ReadFile (WriteFile) calls of one call of comRx
\* (comTx); further calls leave the count at this value.
MaxIssued == 2
\* Capacities of rxBuffer and of txBuffer in SpecTransmit.
TransmitRxCapacity == 2
TransmitTxCapacity == 1
\* Width, in bits, of the modelled DWORD (32 in the source; any width whose
\* largest value exceeds every buffer size behaves the same here).
DWordBits == 16

DWordModulus == 2 ^ DWordBits

\* A C int converted to DWORD (unsigned, modulo 2^width).
ToDWORD(x) == x % DWordModulus

VARIABLES
    ring,       \* SpecCalls/SpecPipe: the RingBuffer under test
    buffer,     \* SpecPipe: the bytes of ring's backing array
    calls,      \* SpecCalls: the calls made since construction, oldest
                \* first, while there are at most MaxCalls; then ManyCalls
    lastCall,   \* SpecCalls: the most recent call
    prod,       \* SpecPipe: the producer thread (pc, pointer, count)
    cons,       \* SpecPipe: the consumer thread (pc, pointer, count)
    committed,  \* SpecPipe: the bytes passed to addData, in order
    consumed,   \* SpecPipe: the bytes the consumer took, in order
    logLines,   \* the anomaly lines logged by the step just taken
    rxBuffer,   \* Spec: bytes moving from the COM port
    txBuffer,   \* Spec: bytes moving to the COM port
    comDone, stdinDone, stdoutDone,
    comRxError, comTxError, comEventError,
    comEventMask,
    hEvent,     \* the events of comEventOverlapped, comRxOverlapped, comTxOverlapped
    device,     \* the overlapped operation of each kind, as the port sees it
    reader,     \* the stdinReader thread: pc, toRead, wasRead, exit status
    writer,     \* the stdoutWriter thread: pc, toWrite, wasWritten, exit status
    main        \* the main thread: pc, waited, exitCode, locals of comRx/comTx

ringVars == <<ring, buffer, calls, lastCall, prod, cons, committed, consumed>>
flagVars == <<comDone, stdinDone, stdoutDone>>
comVars == <<comRxError, comTxError, comEventError, comEventMask, hEvent, device>>
progVars == <<rxBuffer, txBuffer, flagVars, comVars, reader, writer, main>>
vars == <<ringVars, logLines, progVars>>

\* ------------------------------------------------------------- RingBuffer
\* RingBuffer::RingBuffer(int capacity), with the field initialisers and the
\* two CreateEvent calls (notFull starts signalled, notEmpty does not).
RingBuffer(capacity) ==
    [bufferSize |-> capacity + 1,
     dataIndex  |-> 0,
     spaceIndex |-> 0,
     notFull    |-> TRUE,
     notEmpty   |-> FALSE]

\* Mutant of findData: all the bytes held are counted, the ones past the
\* wrap included.
findDataPastWrap(b) ==
    IF b.spaceIndex >= b.dataIndex
    THEN ToDWORD(b.spaceIndex - b.dataIndex)
    ELSE ToDWORD(b.bufferSize - b.dataIndex + b.spaceIndex)

findData(b) ==
    IF b.spaceIndex >= b.dataIndex
    THEN ToDWORD(b.spaceIndex - b.dataIndex)
    ELSE ToDWORD(b.bufferSize - b.dataIndex)

\* Mutant of findSpace: the slot that tells full from empty is not held back.
findSpaceNoReserve(b) ==
    IF b.spaceIndex >= b.dataIndex
    THEN ToDWORD(b.bufferSize - b.spaceIndex)
    ELSE ToDWORD(b.dataIndex - b.spaceIndex)

findSpace(b) ==
    IF b.spaceIndex >= b.dataIndex
    THEN ToDWORD(b.bufferSize - b.spaceIndex - (IF b.dataIndex = 0 THEN 1 ELSE 0))
    ELSE ToDWORD(b.dataIndex - b.spaceIndex - 1)

\* The public accessors run findData/findSpace (or read one index) inside
\* the critical section, so each is one atomic read of the record.
data(b) == b.dataIndex
space(b) == b.spaceIndex
hasData(b) == findData(b)
hasSpace(b) == findSpace(b)

\* Mutant of addData: an over-request is logged but not clamped.
addDataUnclamped(b, count) ==
    IF count > 0
    THEN LET over  == count > findSpace(b)
             s1    == ToDWORD(b.spaceIndex + count)
             s2    == IF s1 = b.bufferSize THEN 0 ELSE s1
             b1    == [b EXCEPT !.spaceIndex = s2, !.notEmpty = TRUE]
             b2    == IF findSpace(b1) <= 0
                      THEN [b1 EXCEPT !.notFull = FALSE] ELSE b1
         IN  [rb |-> b2, msg |-> IF over THEN {"buffer overrun"} ELSE {}]
    ELSE [rb |-> b, msg |-> {}]

\* addData(count): the new RingBuffer and the lines logged.
addData(b, count) ==
    IF count > 0
    THEN LET over  == count > findSpace(b)
             toAdd == IF over THEN findSpace(b) ELSE count
             s1    == ToDWORD(b.spaceIndex + toAdd)
             s2    == IF s1 = b.bufferSize THEN 0 ELSE s1
             b1    == [b EXCEPT !.spaceIndex = s2, !.notEmpty = TRUE]
             b2    == IF findSpace(b1) <= 0
                      THEN [b1 EXCEPT !.notFull = FALSE] ELSE b1
         IN  [rb |-> b2, msg |-> IF over THEN {"buffer overrun"} ELSE {}]
    ELSE [rb |-> b, msg |-> {}]

\* Mutant of removeData: dataIndex is not wrapped at the end of the array.
removeDataNoWrap(b, count) ==
    IF count > 0
    THEN LET under    == count > findData(b)
             toRemove == IF under THEN findData(b) ELSE count
             d1       == ToDWORD(b.dataIndex + toRemove)
             b1       == [b EXCEPT !.dataIndex = d1, !.notFull = TRUE]
             b2       == IF findData(b1) <= 0
                         THEN [b1 EXCEPT !.notEmpty = FALSE] ELSE b1
         IN  [rb |-> b2, msg |-> IF under THEN {"buffer underrun"} ELSE {}]
    ELSE [rb |-> b, msg |-> {}]

\* Mutant of removeData: notEmpty is left signalled when the queue empties.
removeDataNoReset(b, count) ==
    IF count > 0
    THEN LET under    == count > findData(b)
             toRemove == IF under THEN findData(b) ELSE count
             d1       == ToDWORD(b.dataIndex + toRemove)
             d2       == IF d1 = b.bufferSize THEN 0 ELSE d1
             b1       == [b EXCEPT !.dataIndex = d2, !.notFull = TRUE]
         IN  [rb |-> b1, msg |-> IF under THEN {"buffer underrun"} ELSE {}]
    ELSE [rb |-> b, msg |-> {}]

\* removeData(count): the new RingBuffer and the lines logged.
removeData(b, count) ==
    IF count > 0
    THEN LET under    == count > findData(b)
             toRemove == IF under THEN findData(b) ELSE count
             d1       == ToDWORD(b.dataIndex + toRemove)
             d2       == IF d1 = b.bufferSize THEN 0 ELSE d1
             b1       == [b EXCEPT !.dataIndex = d2, !.notFull = TRUE]
             b2       == IF findData(b1) <= 0
                         THEN [b1 EXCEPT !.notEmpty = FALSE] ELSE b1
         IN  [rb |-> b2, msg |-> IF under THEN {"buffer underrun"} ELSE {}]
    ELSE [rb |-> b, msg |-> {}]

\* Bytes held by the queue: committed and not yet removed.
Occupancy(b) == (b.spaceIndex - b.dataIndex) % b.bufferSize
Capacity(b) == b.bufferSize - 1

\* ----------------------------------------------------------- the program
ERROR_SUCCESS == "ERROR_SUCCESS"
ERROR_IO_PENDING == "ERROR_IO_PENDING"
ERROR_IO_INCOMPLETE == "ERROR_IO_INCOMPLETE"
\* Any other error code: a hard failure of the port.
ERROR_OTHER == "ERROR_OTHER"

Unresolved(err) == err \in {ERROR_IO_INCOMPLETE, ERROR_IO_PENDING}

\* The categories of SetCommMask that comEvent tells apart; EV_CTS stands
\* for the ones it only logs (CTS, DSR, RLSD, ERR, RING).
EventCategories == {"EV_RXCHAR", "EV_TXEMPTY", "EV_CTS"}

\* An overlapped operation as the port sees it: none outstanding, pending
\* (with the length asked for), or done with its result not yet fetched.
\* What the result is (a byte count, an event mask, a failure) shows only
\* when GetOverlappedResult fetches it, and is chosen there.
NoOperation == [st |-> "none", len |-> 0]
Pending(len) == [st |-> "pending", len |-> len]

\* The static initialisers, the two RingBuffer objects and, from main(),
\* the three CreateEvent calls and exitCode = 0; both pump threads are
\* started and main is about to evaluate the loop's exit test.
InitProgram ==
    /\ rxBuffer = RingBuffer(RxCapacity)
    /\ txBuffer = RingBuffer(TxCapacity)
    /\ comDone = FALSE /\ stdinDone = FALSE /\ stdoutDone = FALSE
    /\ comRxError = ERROR_SUCCESS
    /\ comTxError = ERROR_SUCCESS
    /\ comEventError = ERROR_SUCCESS
    /\ comEventMask = {}
    /\ hEvent = [event |-> TRUE, rx |-> FALSE, tx |-> FALSE]
    /\ device = [event |-> NoOperation, rx |-> NoOperation, tx |-> NoOperation]
    /\ reader = [pc |-> "hasSpace", toRead |-> 0, wasRead |-> 0, status |-> "running"]
    /\ writer = [pc |-> "hasData", toWrite |-> 0, wasWritten |-> 0, status |-> "running"]
    /\ main = [pc |-> "check_stdoutDone", waited |-> "none", exitCode |-> 0,
               rxRet |-> "none", txRet |-> "none", wasRead |-> 0, wasWritten |-> 0,
               issued |-> 0]

\* The process runs until main returns; the pump threads end with it.
Running == main.pc # "done"

\* ---- stdinReader
\* Mutant of ReaderHasSpace: the read is issued whatever hasSpace() returned.
ReaderHasSpaceNoWait ==
    /\ Running /\ reader.pc = "hasSpace"
    /\ reader' = [reader EXCEPT !.toRead = hasSpace(txBuffer), !.pc = "read"]
    /\ logLines' = {}
    /\ UNCHANGED <<ringVars, rxBuffer, txBuffer, flagVars, comVars, writer, main>>

\* toRead = txBuffer.hasSpace(); if (toRead <= 0) wait for notFull.
ReaderHasSpace ==
    /\ Running /\ reader.pc = "hasSpace"
    /\ LET toRead == hasSpace(txBuffer)
       IN  reader' = [reader EXCEPT !.toRead = toRead,
                                    !.pc = IF toRead <= 0 THEN "wait" ELSE "read"]
    /\ logLines' = {}
    /\ UNCHANGED <<ringVars, rxBuffer, txBuffer, flagVars, comVars, writer, main>>

\* WaitForSingleObject(txBuffer.notFull, INFINITE) returns; continue.
ReaderWait ==
    /\ Running /\ reader.pc = "wait"
    /\ txBuffer.notFull
    /\ reader' = [reader EXCEPT !.pc = "hasSpace"]
    /\ logLines' = {}
    /\ UNCHANGED <<ringVars, rxBuffer, txBuffer, flagVars, comVars, writer, main>>

\* Mutant of ReaderBody: a zero-byte read sets stdinDone but the loop goes on.
ReaderBodyNoReturn(wasRead) ==
    LET r == addData(txBuffer, wasRead)
    IN  /\ txBuffer' = r.rb
        /\ logLines' = r.msg
        /\ stdinDone' = (stdinDone \/ wasRead = 0)
        /\ reader' = [reader EXCEPT !.pc = "hasSpace", !.toRead = 0, !.wasRead = 0]

\* The rest of the loop body of stdinReader, given wasRead:
\* if (wasRead < 0) { stdinDone = TRUE; return errno; }
\* txBuffer.addData(wasRead);
\* if (wasRead == 0) { stdinDone = TRUE; return 0; }
ReaderBody(wasRead) ==
    IF wasRead < 0
    THEN /\ stdinDone' = TRUE
         /\ reader' = [pc |-> "done", toRead |-> 0, wasRead |-> 0, status |-> "errno"]
         /\ logLines' = {} /\ UNCHANGED txBuffer
    ELSE LET r == addData(txBuffer, wasRead)
         IN  /\ txBuffer' = r.rb
             /\ logLines' = r.msg
             /\ IF wasRead = 0
                THEN /\ stdinDone' = TRUE
                     /\ reader' = [pc |-> "done", toRead |-> 0, wasRead |-> 0,
                                    status |-> "0"]
                ELSE /\ stdinDone' = stdinDone
                     /\ reader' = [reader EXCEPT !.pc = "hasSpace", !.toRead = 0,
                                                  !.wasRead = 0]

\* DWORD wasRead = _read(stdinNumber, txBuffer.space(), toRead) returns 0
\* (end of file) or up to toRead bytes, and the loop body runs to its end.
ReaderRead ==
    /\ Running /\ reader.pc = "read"
    /\ \E result \in 0 .. reader.toRead : ReaderBody(ToDWORD(result))
    /\ UNCHANGED <<ringVars, rxBuffer, comDone, stdoutDone, comVars, writer, main>>

\* _read returns -1, the error value; wasRead is the DWORD it converts to.
ReaderReadError ==
    /\ Running /\ reader.pc = "read"
    /\ reader' = [reader EXCEPT !.pc = "failed", !.wasRead = ToDWORD(-1)]
    /\ logLines' = {}
    /\ UNCHANGED <<ringVars, rxBuffer, txBuffer, flagVars, comVars, writer, main>>

\* The loop body after the failed _read.
ReaderAfterError ==
    /\ Running /\ reader.pc = "failed"
    /\ ReaderBody(reader.wasRead)
    /\ UNCHANGED <<ringVars, rxBuffer, comDone, stdoutDone, comVars, writer, main>>

\* ---- stdoutWriter
\* toWrite = rxBuffer.hasData(); if (toWrite <= 0) wait for notEmpty.
WriterHasData ==
    /\ Running /\ writer.pc = "hasData"
    /\ LET toWrite == hasData(rxBuffer)
       IN  writer' = [writer EXCEPT !.toWrite = toWrite,
                                    !.pc = IF toWrite <= 0 THEN "wait" ELSE "write"]
    /\ logLines' = {}
    /\ UNCHANGED <<ringVars, rxBuffer, txBuffer, flagVars, comVars, reader, main>>

\* WaitForSingleObject(rxBuffer.notEmpty, INFINITE) returns; continue.
WriterWait ==
    /\ Running /\ writer.pc = "wait"
    /\ rxBuffer.notEmpty
    /\ writer' = [writer EXCEPT !.pc = "hasData"]
    /\ logLines' = {}
    /\ UNCHANGED <<ringVars, rxBuffer, txBuffer, flagVars, comVars, reader, main>>

\* The rest of the loop body of stdoutWriter, given wasWritten:
\* if (wasWritten < 0) { stdoutDone = TRUE; return errno; }
\* rxBuffer.removeData(wasWritten);
WriterBody(wasWritten) ==
    IF wasWritten < 0
    THEN /\ stdoutDone' = TRUE
         /\ writer' = [pc |-> "done", toWrite |-> 0, wasWritten |-> 0, status |-> "errno"]
         /\ logLines' = {} /\ UNCHANGED rxBuffer
    ELSE LET r == removeData(rxBuffer, wasWritten)
         IN  /\ rxBuffer' = r.rb
             /\ logLines' = r.msg
             /\ stdoutDone' = stdoutDone
             /\ writer' = [writer EXCEPT !.pc = "hasData", !.toWrite = 0,
                                          !.wasWritten = 0]

\* DWORD wasWritten = _write(stdoutNumber, rxBuffer.data(), toWrite) returns
\* the number of bytes written, 1..toWrite, and the loop body runs to its end.
WriterWrite ==
    /\ Running /\ writer.pc = "write"
    /\ \E result \in 1 .. writer.toWrite : WriterBody(ToDWORD(result))
    /\ UNCHANGED <<ringVars, txBuffer, comDone, stdinDone, comVars, reader, main>>

\* _write returns -1, the error value; wasWritten is the DWORD it converts to.
WriterWriteError ==
    /\ Running /\ writer.pc = "write"
    /\ writer' = [writer EXCEPT !.pc = "failed", !.wasWritten = ToDWORD(-1)]
    /\ logLines' = {}
    /\ UNCHANGED <<ringVars, rxBuffer, txBuffer, flagVars, comVars, reader, main>>

\* The loop body after the failed _write.
WriterAfterError ==
    /\ Running /\ writer.pc = "failed"
    /\ WriterBody(writer.wasWritten)
    /\ UNCHANGED <<ringVars, txBuffer, comDone, stdinDone, comVars, reader, main>>

\* ---- the COM port
\* A pending ReadFile completes; the port signals comRxOverlapped.hEvent.
DeviceRxCompletes ==
    /\ Running /\ device.rx.st = "pending"
    /\ device' = [device EXCEPT !.rx.st = "done"]
    /\ hEvent' = [hEvent EXCEPT !.rx = TRUE]
    /\ logLines' = {}
    /\ UNCHANGED <<ringVars, rxBuffer, txBuffer, flagVars, comRxError,
                   comTxError, comEventError, comEventMask, reader, writer, main>>

\* A pending WriteFile completes; the port signals comTxOverlapped.hEvent.
DeviceTxCompletes ==
    /\ Running /\ device.tx.st = "pending"
    /\ device' = [device EXCEPT !.tx.st = "done"]
    /\ hEvent' = [hEvent EXCEPT !.tx = TRUE]
    /\ logLines' = {}
    /\ UNCHANGED <<ringVars, rxBuffer, txBuffer, flagVars, comRxError,
                   comTxError, comEventError, comEventMask, reader, writer, main>>

\* A pending WaitCommEvent completes; the port signals
\* comEventOverlapped.hEvent. (The mask it stores through &comEventMask is
\* read only after GetOverlappedResult reports success.)
DeviceEventCompletes ==
    /\ Running /\ device.event.st = "pending"
    /\ device' = [device EXCEPT !.event.st = "done"]
    /\ hEvent' = [hEvent EXCEPT !.event = TRUE]
    /\ logLines' = {}
    /\ UNCHANGED <<ringVars, rxBuffer, txBuffer, flagVars, comRxError,
                   comTxError, comEventError, comEventMask, reader, writer, main>>

\* ---- main thread: comRx
Goto(pc) == main' = [main EXCEPT !.pc = pc]
CallComRx(ret) == main' = [main EXCEPT !.pc = "rx_reset", !.rxRet = ret, !.issued = 0]
CallComTx(ret) == main' = [main EXCEPT !.pc = "tx_reset", !.txRet = ret, !.issued = 0]
\* return from comRx() / comTx() to the caller's next statement.
ReturnRx == main' = [main EXCEPT !.pc = main.rxRet, !.rxRet = "none", !.issued = 0]
ReturnTx == main' = [main EXCEPT !.pc = main.txRet, !.txRet = "none", !.issued = 0]
\* main.issued counts the calls of ReadFile (WriteFile) made so far by the
\* running call of comRx (comTx), up to MaxIssued; it is history only.
Issue == IF main.issued < MaxIssued THEN main.issued + 1 ELSE MaxIssued

\* Mutant of ComRxReset: entering comRx clears comDone.
ComRxResetClearsDone ==
    /\ main.pc = "rx_reset"
    /\ rxBuffer' = [rxBuffer EXCEPT !.notFull = FALSE]
    /\ Goto("rx_loop")
    /\ logLines' = {}
    /\ comDone' = FALSE
    /\ UNCHANGED <<ringVars, txBuffer, stdinDone, stdoutDone, comVars, reader, writer>>

\* comRx(): ResetEvent(rxBuffer.notFull).
ComRxReset ==
    /\ main.pc = "rx_reset"
    /\ rxBuffer' = [rxBuffer EXCEPT !.notFull = FALSE]
    /\ Goto("rx_loop")
    /\ logLines' = {}
    /\ UNCHANGED <<ringVars, txBuffer, flagVars, comVars, reader, writer>>

\* GetOverlappedResult(comHandle, &comRxOverlapped, &wasRead, FALSE) and
\* the switch on its result, up to the call of addData.
ComRxResult ==
    \/ /\ device.rx.st = "pending"
       /\ comRxError' = ERROR_IO_INCOMPLETE
       /\ ReturnRx
       /\ UNCHANGED <<hEvent, device, comDone>>
    \/ /\ device.rx.st = "done"
       /\ comRxError' = ERROR_SUCCESS
       /\ hEvent' = [hEvent EXCEPT !.rx = FALSE]
       /\ device' = [device EXCEPT !.rx = NoOperation]
       /\ \E count \in 0 .. device.rx.len :
             IF count <= 0
             THEN ReturnRx
             ELSE main' = [main EXCEPT !.pc = "rx_add", !.wasRead = count]
       /\ UNCHANGED comDone
    \/ /\ device.rx.st = "done"
       /\ comRxError' = ERROR_OTHER
       /\ comDone' = TRUE
       /\ device' = [device EXCEPT !.rx = NoOperation]
       /\ ReturnRx
       /\ UNCHANGED hEvent

\* Mutant of ComRxReadFile: a ReadFile that succeeds with zero bytes is
\* treated as the end of the device.
ComRxReadFileZeroEnds(toRead) ==
    \/ \E count \in 0 .. toRead :
          /\ comRxError' = ERROR_SUCCESS
          /\ hEvent' = [hEvent EXCEPT !.rx = FALSE]
          /\ IF count <= 0
             THEN ReturnRx /\ comDone' = TRUE
             ELSE /\ main' = [main EXCEPT !.pc = "rx_add", !.wasRead = count,
                                          !.issued = Issue]
                  /\ UNCHANGED comDone
          /\ UNCHANGED device
    \/ /\ comRxError' = ERROR_IO_PENDING
       /\ hEvent' = [hEvent EXCEPT !.rx = FALSE]
       /\ device' = [device EXCEPT !.rx = Pending(toRead)]
       /\ ReturnRx
       /\ UNCHANGED comDone
    \/ /\ comRxError' = ERROR_OTHER
       /\ comDone' = TRUE
       /\ ReturnRx
       /\ UNCHANGED <<hEvent, device>>

\* ReadFile(comHandle, buffer, toRead, NULL, &comRxOverlapped) and what
\* follows it in the same pass of the loop.
ComRxReadFile(toRead) ==
    \/ \E count \in 0 .. toRead :      \* completes at once
          /\ comRxError' = ERROR_SUCCESS
          /\ hEvent' = [hEvent EXCEPT !.rx = FALSE]
          /\ IF count <= 0
             THEN ReturnRx
             ELSE main' = [main EXCEPT !.pc = "rx_add", !.wasRead = count,
                                       !.issued = Issue]
          /\ UNCHANGED <<device, comDone>>
    \/ /\ comRxError' = ERROR_IO_PENDING
       /\ hEvent' = [hEvent EXCEPT !.rx = FALSE]
       /\ device' = [device EXCEPT !.rx = Pending(toRead)]
       /\ ReturnRx
       /\ UNCHANGED comDone
    \/ /\ comRxError' = ERROR_OTHER
       /\ comDone' = TRUE
       /\ ReturnRx
       /\ UNCHANGED <<hEvent, device>>

\* Mutant of ComRxLoop: ReadFile is issued without looking at comRxError.
ComRxLoopNoPoll ==
    /\ main.pc = "rx_loop"
    /\ IF comDone
       THEN ReturnRx /\ UNCHANGED <<comRxError, hEvent, device, comDone>>
       ELSE IF hasSpace(rxBuffer) <= 0
            THEN ReturnRx /\ UNCHANGED <<comRxError, hEvent, device, comDone>>
            ELSE ComRxReadFile(hasSpace(rxBuffer))
    /\ logLines' = {}
    /\ UNCHANGED <<ringVars, rxBuffer, txBuffer, stdinDone, stdoutDone,
                   comTxError, comEventError, comEventMask, reader, writer>>

\* One pass of while (!comDone) in comRx, up to the call of addData.
ComRxLoop ==
    /\ main.pc = "rx_loop"
    /\ IF comDone
       THEN ReturnRx /\ UNCHANGED <<comRxError, hEvent, device, comDone>>
       ELSE IF Unresolved(comRxError)
            THEN ComRxResult
            ELSE IF hasSpace(rxBuffer) <= 0
                 THEN ReturnRx /\ UNCHANGED <<comRxError, hEvent, device, comDone>>
                 ELSE ComRxReadFile(hasSpace(rxBuffer))
    /\ logLines' = {}
    /\ UNCHANGED <<ringVars, rxBuffer, txBuffer, stdinDone, stdoutDone,
                   comTxError, comEventError, comEventMask, reader, writer>>

\* Mutant of ComRxAddData: the bytes are published without SetEvent(notEmpty).
ComRxAddDataNoSignal ==
    /\ main.pc = "rx_add"
    /\ LET r == addData(rxBuffer, main.wasRead)
       IN  /\ rxBuffer' = [r.rb EXCEPT !.notEmpty = rxBuffer.notEmpty]
           /\ logLines' = r.msg
    /\ main' = [main EXCEPT !.pc = "rx_loop", !.wasRead = 0]
    /\ UNCHANGED <<ringVars, txBuffer, flagVars, comVars, reader, writer>>

\* rxBuffer.addData(wasRead); then the next pass of the loop.
ComRxAddData ==
    /\ main.pc = "rx_add"
    /\ LET r == addData(rxBuffer, main.wasRead)
       IN  /\ rxBuffer' = r.rb
           /\ logLines' = r.msg
    /\ main' = [main EXCEPT !.pc = "rx_loop", !.wasRead = 0]
    /\ UNCHANGED <<ringVars, txBuffer, flagVars, comVars, reader, writer>>

\* ---- main thread: comTx
\* comTx(): ResetEvent(txBuffer.notEmpty).
ComTxReset ==
    /\ main.pc = "tx_reset"
    /\ txBuffer' = [txBuffer EXCEPT !.notEmpty = FALSE]
    /\ Goto("tx_loop")
    /\ logLines' = {}
    /\ UNCHANGED <<ringVars, rxBuffer, flagVars, comVars, reader, writer>>

ComTxResult ==
    \/ /\ device.tx.st = "pending"
       /\ comTxError' = ERROR_IO_INCOMPLETE
       /\ ReturnTx
       /\ UNCHANGED <<hEvent, device, comDone>>
    \/ /\ device.tx.st = "done"
       /\ comTxError' = ERROR_SUCCESS
       /\ hEvent' = [hEvent EXCEPT !.tx = FALSE]
       /\ device' = [device EXCEPT !.tx = NoOperation]
       /\ \E count \in 0 .. device.tx.len :
             IF count <= 0
             THEN ReturnTx
             ELSE main' = [main EXCEPT !.pc = "tx_remove", !.wasWritten = count]
       /\ UNCHANGED comDone
    \/ /\ device.tx.st = "done"
       /\ comTxError' = ERROR_OTHER
       /\ comDone' = TRUE
       /\ device' = [device EXCEPT !.tx = NoOperation]
       /\ ReturnTx
       /\ UNCHANGED hEvent

ComTxWriteFile(toWrite) ==
    \/ \E count \in 0 .. toWrite :      \* completes at once
          /\ comTxError' = ERROR_SUCCESS
          /\ hEvent' = [hEvent EXCEPT !.tx = FALSE]
          /\ IF count <= 0
             THEN ReturnTx
             ELSE main' = [main EXCEPT !.pc = "tx_remove", !.wasWritten = count,
                                       !.issued = Issue]
          /\ UNCHANGED <<device, comDone>>
    \/ /\ comTxError' = ERROR_IO_PENDING
       /\ hEvent' = [hEvent EXCEPT !.tx = FALSE]
       /\ device' = [device EXCEPT !.tx = Pending(toWrite)]
       /\ ReturnTx
       /\ UNCHANGED comDone
    \/ /\ comTxError' = ERROR_OTHER
       /\ comDone' = TRUE
       /\ ReturnTx
       /\ UNCHANGED <<hEvent, device>>

\* Mutant of ComTxLoop: the loop does not test comDone.
ComTxLoopDespiteDone ==
    /\ main.pc = "tx_loop"
    /\ IF Unresolved(comTxError)
       THEN ComTxResult
       ELSE IF hasData(txBuffer) <= 0
            THEN ReturnTx /\ UNCHANGED <<comTxError, hEvent, device, comDone>>
            ELSE ComTxWriteFile(hasData(txBuffer))
    /\ logLines' = {}
    /\ UNCHANGED <<ringVars, rxBuffer, txBuffer, stdinDone, stdoutDone,
                   comRxError, comEventError, comEventMask, reader, writer>>

\* Mutant of ComTxLoop: WriteFile is asked to write as many bytes as the
\* backing array has, not the hasData() run.
ComTxLoopWholeBuffer ==
    /\ main.pc = "tx_loop"
    /\ IF comDone
       THEN ReturnTx /\ UNCHANGED <<comTxError, hEvent, device, comDone>>
       ELSE IF Unresolved(comTxError)
            THEN ComTxResult
            ELSE IF hasData(txBuffer) <= 0
                 THEN ReturnTx /\ UNCHANGED <<comTxError, hEvent, device, comDone>>
                 ELSE ComTxWriteFile(txBuffer.bufferSize)
    /\ logLines' = {}
    /\ UNCHANGED <<ringVars, rxBuffer, txBuffer, stdinDone, stdoutDone,
                   comRxError, comEventError, comEventMask, reader, writer>>

\* One pass of while (!comDone) in comTx, up to the call of removeData.
ComTxLoop ==
    /\ main.pc = "tx_loop"
    /\ IF comDone
       THEN ReturnTx /\ UNCHANGED <<comTxError, hEvent, device, comDone>>
       ELSE IF Unresolved(comTxError)
            THEN ComTxResult
            ELSE IF hasData(txBuffer) <= 0
                 THEN ReturnTx /\ UNCHANGED <<comTxError, hEvent, device, comDone>>
                 ELSE ComTxWriteFile(hasData(txBuffer))
    /\ logLines' = {}
    /\ UNCHANGED <<ringVars, rxBuffer, txBuffer, stdinDone, stdoutDone,
                   comRxError, comEventError, comEventMask, reader, writer>>

\* txBuffer.removeData(wasWritten); then the next pass of the loop.
ComTxRemoveData ==
    /\ main.pc = "tx_remove"
    /\ LET r == removeData(txBuffer, main.wasWritten)
       IN  /\ txBuffer' = r.rb
           /\ logLines' = r.msg
    /\ main' = [main EXCEPT !.pc = "tx_loop", !.wasWritten = 0]
    /\ UNCHANGED <<ringVars, rxBuffer, flagVars, comVars, reader, writer>>

\* ---- main thread: comEvent
\* The last switch of comEvent on ERROR_SUCCESS: ResetEvent, then comRx()
\* on EV_RXCHAR, comTx() on EV_TXEMPTY, then the next pass of the loop.
ComEventDispatch(mask) ==
    /\ hEvent' = [hEvent EXCEPT !.event = FALSE]
    /\ IF "EV_RXCHAR" \in mask THEN CallComRx("ev_tx")
       ELSE IF "EV_TXEMPTY" \in mask THEN CallComTx("ev_loop")
       ELSE Goto("ev_loop")

\* GetOverlappedResult(comHandle, &comEventOverlapped, &dontCare, FALSE)
\* and the switch on its result.
ComEventResult ==
    \/ /\ device.event.st = "pending"
       /\ comEventError' = ERROR_IO_INCOMPLETE
       /\ Goto("check_stdoutDone")
       /\ UNCHANGED <<hEvent, device, comDone, comEventMask>>
    \/ /\ device.event.st = "done"
       /\ comEventError' = ERROR_SUCCESS
       /\ device' = [device EXCEPT !.event = NoOperation]
       /\ \E mask \in SUBSET EventCategories :
             /\ comEventMask' = mask
             /\ ComEventDispatch(mask)
       /\ UNCHANGED comDone
    \/ /\ device.event.st = "done"
       /\ comEventError' = ERROR_OTHER
       /\ comDone' = TRUE
       /\ device' = [device EXCEPT !.event = NoOperation]
       /\ Goto("check_stdoutDone")
       /\ UNCHANGED <<hEvent, comEventMask>>

\* WaitCommEvent(comHandle, &comEventMask, &comEventOverlapped) and the
\* switches after it, except the poll that follows ERROR_IO_PENDING. The
\* call hands comEventMask to the port: unless it completes at once, what
\* the variable holds is not read again before a completion stores a mask,
\* and the model keeps {} there meanwhile.
ComEventWaitCommEvent ==
    \/ \E mask \in SUBSET EventCategories :      \* completes at once
          /\ comEventError' = ERROR_SUCCESS
          /\ comEventMask' = mask
          /\ ComEventDispatch(mask)
          /\ UNCHANGED <<device, comDone>>
    \/ /\ comEventError' = ERROR_IO_PENDING
       /\ hEvent' = [hEvent EXCEPT !.event = FALSE]
       /\ device' = [device EXCEPT !.event = Pending(0)]
       /\ comEventMask' = {}
       /\ Goto("ev_poll")
       /\ UNCHANGED comDone
    \/ /\ comEventError' = ERROR_OTHER
       /\ comDone' = TRUE
       /\ comEventMask' = {}
       /\ Goto("check_stdoutDone")
       /\ UNCHANGED <<hEvent, device>>

\* One pass of while (!comDone) in comEvent.
ComEventLoop ==
    /\ main.pc = "ev_loop"
    /\ IF comDone
       THEN /\ Goto("check_stdoutDone")
            /\ UNCHANGED <<comEventError, hEvent, device, comDone, comEventMask>>
       ELSE IF Unresolved(comEventError)
            THEN ComEventResult
            ELSE ComEventWaitCommEvent
    /\ logLines' = {}
    /\ UNCHANGED <<ringVars, rxBuffer, txBuffer, stdinDone, stdoutDone,
                   comRxError, comTxError, reader, writer>>

\* The poll right after WaitCommEvent returned ERROR_IO_PENDING.
ComEventPoll ==
    /\ main.pc = "ev_poll"
    /\ ComEventResult
    /\ logLines' = {}
    /\ UNCHANGED <<ringVars, rxBuffer, txBuffer, stdinDone, stdoutDone,
                   comRxError, comTxError, reader, writer>>

\* Mutant of ComEventTx: after comRx() the mask is not looked at again.
ComEventTxNever ==
    /\ main.pc = "ev_tx"
    /\ Goto("ev_loop")
    /\ logLines' = {}
    /\ UNCHANGED <<ringVars, rxBuffer, txBuffer, flagVars, comVars, reader, writer>>

\* Back from comRx(): if (comEventMask & EV_TXEMPTY) comTx().
ComEventTx ==
    /\ main.pc = "ev_tx"
    /\ IF "EV_TXEMPTY" \in comEventMask THEN CallComTx("ev_loop") ELSE Goto("ev_loop")
    /\ logLines' = {}
    /\ UNCHANGED <<ringVars, rxBuffer, txBuffer, flagVars, comVars, reader, writer>>

\* ---- main thread: the loop of main()
\* Mutant of ExitCode: exitCode is returned as the loop left it.
ExitCodeKept(exitCode, done) == exitCode

\* if (exitCode == 0 && comDone) exitCode = 6;
ExitCode(exitCode, done) == IF exitCode = 0 /\ done THEN 6 ELSE exitCode

\* break out of the loop; main returns exitCode.
Exit(waited, exitCode) ==
    main' = [main EXCEPT !.pc = "done", !.waited = waited,
                         !.exitCode = ExitCode(exitCode, comDone)]

\* The second operand of the exit test, from comDone on.
CheckComDone == IF comDone THEN Exit(main.waited, main.exitCode) ELSE Goto("check_stdinDone")

\* The exit test reads stdoutDone, rxBuffer.hasData(), comDone, stdinDone
\* and txBuffer.hasData() one after the other, as && and || prescribe.
MainCheckStdoutDone ==
    /\ main.pc = "check_stdoutDone"
    /\ IF stdoutDone THEN CheckComDone ELSE Goto("check_rxData")
    /\ logLines' = {}
    /\ UNCHANGED <<ringVars, rxBuffer, txBuffer, flagVars, comVars, reader, writer>>

MainCheckRxData ==
    /\ main.pc = "check_rxData"
    /\ IF hasData(rxBuffer) = 0 THEN CheckComDone ELSE Goto("wait")
    /\ logLines' = {}
    /\ UNCHANGED <<ringVars, rxBuffer, txBuffer, flagVars, comVars, reader, writer>>

MainCheckStdinDone ==
    /\ main.pc = "check_stdinDone"
    /\ IF stdinDone THEN Goto("check_txData") ELSE Goto("wait")
    /\ logLines' = {}
    /\ UNCHANGED <<ringVars, rxBuffer, txBuffer, flagVars, comVars, reader, writer>>

\* Mutant of MainCheckTxData: the loop is left without reading hasData().
MainCheckTxDataSkipped ==
    /\ main.pc = "check_txData"
    /\ Exit(main.waited, main.exitCode)
    /\ logLines' = {}
    /\ UNCHANGED <<ringVars, rxBuffer, txBuffer, flagVars, comVars, reader, writer>>

MainCheckTxData ==
    /\ main.pc = "check_txData"
    /\ IF hasData(txBuffer) = 0 THEN Exit(main.waited, main.exitCode) ELSE Goto("wait")
    /\ logLines' = {}
    /\ UNCHANGED <<ringVars, rxBuffer, txBuffer, flagVars, comVars, reader, writer>>

\* HANDLE waitables[]: which of the five are signalled.
Waitables ==
    <<hEvent.event, hEvent.rx, hEvent.tx, rxBuffer.notFull, txBuffer.notEmpty>>
Signalled == {i \in 1 .. 5 : Waitables[i]}
Lowest(S) == CHOOSE i \in S : \A j \in S : i <= j
WaitObject(i) ==
    <<"WAIT_OBJECT_0", "WAIT_OBJECT_1", "WAIT_OBJECT_2", "WAIT_OBJECT_3", "WAIT_OBJECT_4">>[i]

\* Mutant of MainWaitSignalled: case WAIT_OBJECT_0 + 1 tests comRxError as
\* case WAIT_OBJECT_0 + 3 does.
MainWaitSignalledRxGuarded ==
    /\ main.pc = "wait"
    /\ Signalled # {}
    /\ LET waited == WaitObject(Lowest(Signalled))
           pc == CASE waited = "WAIT_OBJECT_0" -> "ev_loop"
                   [] waited \in {"WAIT_OBJECT_1", "WAIT_OBJECT_3"} ->
                        IF comRxError # ERROR_SUCCESS THEN "check_stdoutDone" ELSE "rx_reset"
                   [] waited = "WAIT_OBJECT_4" ->
                        IF comTxError # ERROR_SUCCESS THEN "check_stdoutDone" ELSE "tx_reset"
                   [] waited = "WAIT_OBJECT_2" -> "tx_reset"
       IN  main' = [main EXCEPT
                      !.pc = pc,
                      !.rxRet = IF pc = "rx_reset" THEN "check_stdoutDone" ELSE "none",
                      !.txRet = IF pc = "tx_reset" THEN "check_stdoutDone" ELSE "none"]
    /\ logLines' = {}
    /\ UNCHANGED <<ringVars, rxBuffer, txBuffer, flagVars, comVars, reader, writer>>

\* WaitForMultipleObjects returns the lowest signalled index; the switch.
MainWaitSignalled ==
    /\ main.pc = "wait"
    /\ Signalled # {}
    /\ LET waited == WaitObject(Lowest(Signalled))
           pc == CASE waited = "WAIT_OBJECT_0" -> "ev_loop"
                   [] waited = "WAIT_OBJECT_3" ->
                        IF comRxError # ERROR_SUCCESS THEN "check_stdoutDone" ELSE "rx_reset"
                   [] waited = "WAIT_OBJECT_1" -> "rx_reset"
                   [] waited = "WAIT_OBJECT_4" ->
                        IF comTxError # ERROR_SUCCESS THEN "check_stdoutDone" ELSE "tx_reset"
                   [] waited = "WAIT_OBJECT_2" -> "tx_reset"
       IN  main' = [main EXCEPT
                      !.pc = pc,
                      !.rxRet = IF pc = "rx_reset" THEN "check_stdoutDone" ELSE "none",
                      !.txRet = IF pc = "tx_reset" THEN "check_stdoutDone" ELSE "none"]
    /\ logLines' = {}
    /\ UNCHANGED <<ringVars, rxBuffer, txBuffer, flagVars, comVars, reader, writer>>

\* Nothing is signalled for 2000 ms: WAIT_TIMEOUT.
MainWaitTimeout ==
    /\ main.pc = "wait"
    /\ Signalled = {}
    /\ Goto("timeout_rx")
    /\ logLines' = {}
    /\ UNCHANGED <<ringVars, rxBuffer, txBuffer, flagVars, comVars, reader, writer>>

\* if (rxBuffer.hasSpace() && comRxError == ERROR_SUCCESS) comRx();
MainTimeoutRx ==
    /\ main.pc = "timeout_rx"
    /\ IF hasSpace(rxBuffer) # 0 /\ comRxError = ERROR_SUCCESS
       THEN CallComRx("timeout_tx") ELSE Goto("timeout_tx")
    /\ logLines' = {}
    /\ UNCHANGED <<ringVars, rxBuffer, txBuffer, flagVars, comVars, reader, writer>>

\* if (txBuffer.hasData() && comTxError == ERROR_SUCCESS) comTx(); continue;
MainTimeoutTx ==
    /\ main.pc = "timeout_tx"
    /\ IF hasData(txBuffer) # 0 /\ comTxError = ERROR_SUCCESS
       THEN CallComTx("check_stdoutDone") ELSE Goto("check_stdoutDone")
    /\ logLines' = {}
    /\ UNCHANGED <<ringVars, rxBuffer, txBuffer, flagVars, comVars, reader, writer>>

\* case WAIT_FAILED: exitCode = 4; break;
MainWaitFailed ==
    /\ main.pc = "wait"
    /\ Exit("WAIT_FAILED", 4)
    /\ logLines' = {}
    /\ UNCHANGED <<ringVars, rxBuffer, txBuffer, flagVars, comVars, reader, writer>>

\* default: exitCode = 5; (any other value, such as WAIT_ABANDONED_0)
MainWaitOther ==
    /\ main.pc = "wait"
    /\ Exit("WAIT_ABANDONED_0", 5)
    /\ logLines' = {}
    /\ UNCHANGED <<ringVars, rxBuffer, txBuffer, flagVars, comVars, reader, writer>>

Init ==
    /\ ring = RingBuffer(1)
    /\ buffer = <<>>
    /\ calls = <<>>
    /\ lastCall = [op |-> "none", count |-> 0]
    /\ prod = [pc |-> "idle", ptr |-> 0, n |-> 0]
    /\ cons = [pc |-> "idle", ptr |-> 0, n |-> 0]
    /\ committed = <<>>
    /\ consumed = <<>>
    /\ logLines = {}
    /\ InitProgram

Next ==
    \/ ReaderHasSpace \/ ReaderWait \/ ReaderRead \/ ReaderReadError \/ ReaderAfterError
    \/ WriterHasData \/ WriterWait \/ WriterWrite \/ WriterWriteError \/ WriterAfterError
    \/ DeviceRxCompletes \/ DeviceTxCompletes \/ DeviceEventCompletes
    \/ ComRxReset \/ ComRxLoop \/ ComRxAddData
    \/ ComTxReset \/ ComTxLoop \/ ComTxRemoveData
    \/ ComEventLoop \/ ComEventPoll \/ ComEventTx
    \/ MainCheckStdoutDone \/ MainCheckRxData \/ MainCheckStdinDone \/ MainCheckTxData
    \/ MainWaitSignalled \/ MainWaitTimeout \/ MainTimeoutRx \/ MainTimeoutTx
    \/ MainWaitFailed \/ MainWaitOther

Spec == Init /\ [][Next]_vars

\* --------------------------------------------------------------- SpecCalls
\* Counts a caller may pass: everything up to one past the backing array,
\* and the DWORD that a C int of -1 converts to.
Counts(b) == (0 .. b.bufferSize + 1) \cup {ToDWORD(-1)}

NoCall == [op |-> "none", count |-> 0]
Idle == [pc |-> "idle", ptr |-> 0, n |-> 0]

InitCalls ==
    /\ \E capacity \in 1 .. MaxCapacity : ring = RingBuffer(capacity)
    /\ buffer = <<>>
    /\ calls = <<>>
    /\ lastCall = NoCall
    /\ prod = Idle
    /\ cons = Idle
    /\ committed = <<>>
    /\ consumed = <<>>
    /\ logLines = {}
    /\ InitProgram

ManyCalls == <<[op |-> "many", count |-> 0]>>
Record(call) ==
    IF calls # ManyCalls /\ Len(calls) < MaxCalls THEN Append(calls, call) ELSE ManyCalls

CallAddData ==
    /\ \E count \in Counts(ring) :
          LET r == addData(ring, count)
              c == [op |-> "addData", count |-> count]
          IN  /\ ring' = r.rb
              /\ logLines' = r.msg
              /\ lastCall' = c
              /\ calls' = Record(c)
    /\ UNCHANGED <<buffer, prod, cons, committed, consumed, progVars>>

CallRemoveData ==
    /\ \E count \in Counts(ring) :
          LET r == removeData(ring, count)
              c == [op |-> "removeData", count |-> count]
          IN  /\ ring' = r.rb
              /\ logLines' = r.msg
              /\ lastCall' = c
              /\ calls' = Record(c)
    /\ UNCHANGED <<buffer, prod, cons, committed, consumed, progVars>>

NextCalls == CallAddData \/ CallRemoveData

SpecCalls == InitCalls /\ [][NextCalls]_vars

\* ---------------------------------------------------------------- SpecPipe
\* One producer and one consumer on one RingBuffer, each following the
\* calling convention of the pump threads and of comRx/comTx: read
\* hasSpace()/hasData(), transfer at most that many bytes at
\* space()/data(), then addData()/removeData() the number transferred.
\* The producer writes the bytes 1, 2, 3, ... so every byte is distinct.

\* new BYTE[bufferSize] is not initialised: each slot holds either of two
\* byte values, one of which is also the first byte of the stream.
UninitBytes == {0, 1}

ReadByte(buf, i) == IF i \in DOMAIN buf THEN buf[i] ELSE 0

InitPipe ==
    /\ \E capacity \in 1 .. MaxCapacity :
          /\ ring = RingBuffer(capacity)
          /\ buffer \in [0 .. capacity -> UninitBytes]
    /\ calls = <<>>
    /\ lastCall = NoCall
    /\ prod = [pc |-> "poll", ptr |-> 0, n |-> 0]
    /\ cons = [pc |-> "poll", ptr |-> 0, n |-> 0]
    /\ committed = <<>>
    /\ consumed = <<>>
    /\ logLines = {}
    /\ InitProgram

\* toRead = hasSpace(); zero: WaitForSingleObject(notFull), otherwise go on
\* to transfer at space().
ProducerPoll ==
    /\ prod.pc = "poll"
    /\ prod' = IF hasSpace(ring) <= 0
               THEN [pc |-> "wait", ptr |-> 0, n |-> 0]
               ELSE [pc |-> "fill", ptr |-> space(ring), n |-> hasSpace(ring)]
    /\ logLines' = {}
    /\ UNCHANGED <<ring, buffer, calls, lastCall, cons, committed, consumed, progVars>>

ProducerWake ==
    /\ prod.pc = "wait"
    /\ ring.notFull
    /\ prod' = [prod EXCEPT !.pc = "poll"]
    /\ logLines' = {}
    /\ UNCHANGED <<ring, buffer, calls, lastCall, cons, committed, consumed, progVars>>

\* The transfer stores k <= toRead bytes at space().
ProducerFill ==
    /\ prod.pc = "fill"
    /\ \E k \in 0 .. prod.n :
          /\ Len(committed) + k <= MaxBytes
          /\ buffer' = [i \in DOMAIN buffer |->
                           IF i >= prod.ptr /\ i < prod.ptr + k
                           THEN Len(committed) + 1 + (i - prod.ptr)
                           ELSE buffer[i]]
          /\ prod' = [prod EXCEPT !.pc = "commit", !.n = k]
    /\ logLines' = {}
    /\ UNCHANGED <<ring, calls, lastCall, cons, committed, consumed, progVars>>

ProducerCommit ==
    /\ prod.pc = "commit"
    /\ LET r == addData(ring, prod.n)
       IN  /\ ring' = r.rb
           /\ logLines' = r.msg
    /\ committed' = committed \o [i \in 1 .. prod.n |-> Len(committed) + i]
    /\ prod' = [pc |-> "poll", ptr |-> 0, n |-> 0]
    /\ UNCHANGED <<buffer, calls, lastCall, cons, consumed, progVars>>

\* toWrite = hasData(); zero: WaitForSingleObject(notEmpty), otherwise go
\* on to transfer from data().
ConsumerPoll ==
    /\ cons.pc = "poll"
    /\ cons' = IF hasData(ring) <= 0
               THEN [pc |-> "wait", ptr |-> 0, n |-> 0]
               ELSE [pc |-> "drain", ptr |-> data(ring), n |-> hasData(ring)]
    /\ logLines' = {}
    /\ UNCHANGED <<ring, buffer, calls, lastCall, prod, committed, consumed, progVars>>

ConsumerWake ==
    /\ cons.pc = "wait"
    /\ ring.notEmpty
    /\ cons' = [cons EXCEPT !.pc = "poll"]
    /\ logLines' = {}
    /\ UNCHANGED <<ring, buffer, calls, lastCall, prod, committed, consumed, progVars>>

\* The transfer takes j <= toWrite bytes from data().
ConsumerDrain ==
    /\ cons.pc = "drain"
    /\ \E j \in 0 .. cons.n :
          /\ consumed' = consumed \o [i \in 1 .. j |-> ReadByte(buffer, cons.ptr + i - 1)]
          /\ cons' = [cons EXCEPT !.pc = "free", !.n = j]
    /\ logLines' = {}
    /\ UNCHANGED <<ring, buffer, calls, lastCall, prod, committed, progVars>>

ConsumerFree ==
    /\ cons.pc = "free"
    /\ LET r == removeData(ring, cons.n)
       IN  /\ ring' = r.rb
           /\ logLines' = r.msg
    /\ cons' = [pc |-> "poll", ptr |-> 0, n |-> 0]
    /\ UNCHANGED <<buffer, calls, lastCall, prod, committed, consumed, progVars>>

NextPipe ==
    \/ ProducerPoll \/ ProducerWake \/ ProducerFill \/ ProducerCommit
    \/ ConsumerPoll \/ ConsumerWake \/ ConsumerDrain \/ ConsumerFree

SpecPipe == InitPipe /\ [][NextPipe]_vars

\* ================================================================== claims
IsPrefix(s, t) == Len(s) <= Len(t) /\ \A i \in 1 .. Len(s) : s[i] = t[i]

IndicesInRange(b) ==
    /\ 0 <= b.dataIndex /\ b.dataIndex < b.bufferSize
    /\ 0 <= b.spaceIndex /\ b.spaceIndex < b.bufferSize

\* Bytes the consumer has passed to removeData.
Freed == Len(consumed) - (IF cons.pc = "free" THEN cons.n ELSE 0)

\* C1: under every interleaving of one producer and one consumer that keep
\* to the hasSpace()/hasData() they read, the bytes consumed are, in order,
\* a prefix of the bytes committed, and the bytes committed but not yet
\* removed are exactly the bytes the queue holds from data() on, in order:
\* none is lost, duplicated, overwritten or reordered.
C1_ConsumedIsPrefixOfCommitted ==
    /\ IsPrefix(consumed, committed)
    /\ Occupancy(ring) = Len(committed) - Freed
    /\ \A i \in 1 .. Occupancy(ring) :
          ReadByte(buffer, (ring.dataIndex + i - 1) % ring.bufferSize) = committed[Freed + i]

\* C1 witness: both threads are in mid-transfer after the indices have
\* wrapped and more bytes than the array holds have been consumed.
C1_Witness ==
    /\ prod.pc = "commit" /\ prod.n > 0
    /\ cons.pc = "free" /\ cons.n > 0
    /\ ring.spaceIndex < ring.dataIndex
    /\ Len(consumed) > ring.bufferSize

C2_State ==
    /\ IndicesInRange(ring)
    /\ Occupancy(ring) \in 0 .. Capacity(ring)
    /\ (ring.dataIndex = ring.spaceIndex) <=> (hasData(ring) = 0)
    /\ (ring.dataIndex = ring.spaceIndex) <=> ~ring.notEmpty

C2_Step ==
    (lastCall'.op = "addData" /\ ring'.spaceIndex # ring.spaceIndex)
        => ring'.spaceIndex # ring'.dataIndex

\* C2: after any sequence of addData/removeData calls, over-requests
\* included, both indices lie in 0..C, the occupancy lies in 0..C, the
\* indices are equal exactly when the queue is empty (hasData() is 0 and
\* notEmpty is not signalled), and no addData moves spaceIndex onto
\* dataIndex.
C2_IndicesAndOccupancy == []C2_State /\ [][C2_Step]_vars

\* C2 witness: the queue is full with spaceIndex wrapped to just below
\* dataIndex, after an over-request.
C2_Witness ==
    /\ lastCall.op = "addData"
    /\ lastCall.count > Capacity(ring)
    /\ ring.dataIndex > 1
    /\ ring.spaceIndex = ring.dataIndex - 1

\* The call history is addData(n), removeData(n) on a fresh RingBuffer.
AddThenRemove(n) ==
    calls = <<[op |-> "addData", count |-> n], [op |-> "removeData", count |-> n]>>

\* C4 as stated: for every capacity C and 0 <= n <= C, addData(n) then
\* removeData(n) on a fresh RingBuffer leaves hasData() = 0 and
\* hasSpace() = C.
C4_AsStated ==
    \A n \in 0 .. Capacity(ring) :
        AddThenRemove(n) => hasData(ring) = 0 /\ hasSpace(ring) = Capacity(ring)

\* C4 as amended: for every capacity C and 0 <= n <= C, addData(n) then
\* removeData(n) on a fresh RingBuffer leaves hasData() = 0 with both
\* indices at n (occupancy 0), and hasSpace(), the contiguous run at
\* space(), is C when n = 0 and C + 1 - n otherwise.
C4_AddThenRemove ==
    \A n \in 0 .. Capacity(ring) :
        AddThenRemove(n) =>
            /\ hasData(ring) = 0
            /\ ring.dataIndex = n /\ ring.spaceIndex = n
            /\ Occupancy(ring) = 0
            /\ hasSpace(ring) = IF n = 0 THEN Capacity(ring) ELSE Capacity(ring) + 1 - n

\* C4 witness: the round trip with n = C on a queue of capacity above 1.
C4_Witness == Capacity(ring) > 1 /\ AddThenRemove(Capacity(ring))

Added3 == calls = <<[op |-> "addData", count |-> 3]>>
Added3Removed2 ==
    calls = <<[op |-> "addData", count |-> 3], [op |-> "removeData", count |-> 2]>>

\* C5 as stated: capacity 4, fresh; after addData(3) hasData() = 3 and
\* hasSpace() = 1; after a following removeData(2) hasData() = 1 and
\* hasSpace() = 3.
C5_AsStated ==
    Capacity(ring) = 4 =>
        /\ Added3 => hasData(ring) = 3 /\ hasSpace(ring) = 1
        /\ Added3Removed2 => hasData(ring) = 1 /\ hasSpace(ring) = 3

\* C5 as amended: capacity 4, fresh; after addData(3) hasData() = 3 and
\* hasSpace() = 1; after a following removeData(2) hasData() = 1 and
\* hasSpace() = 2, the run from space() to the end of the array (3 bytes
\* are free in all).
C5_Scenario ==
    Capacity(ring) = 4 =>
        /\ Added3 => hasData(ring) = 3 /\ hasSpace(ring) = 1
        /\ Added3Removed2 =>
              /\ hasData(ring) = 1 /\ hasSpace(ring) = 2
              /\ Capacity(ring) - Occupancy(ring) = 3

\* C5 witness: the end of the scenario.
C5_Witness == Capacity(ring) = 4 /\ Added3Removed2

C6_Step ==
    /\ (lastCall'.op = "addData" /\ lastCall'.count > hasSpace(ring)) =>
          /\ ring'.spaceIndex = (ring.spaceIndex + hasSpace(ring)) % ring.bufferSize
          /\ ring'.dataIndex = ring.dataIndex
          /\ "buffer overrun" \in logLines'
          /\ IndicesInRange(ring')
          /\ Occupancy(ring') = Occupancy(ring) + hasSpace(ring)
          /\ Occupancy(ring') <= Capacity(ring)
    /\ (lastCall'.op = "removeData" /\ lastCall'.count > hasData(ring)) =>
          /\ ring'.dataIndex = (ring.dataIndex + hasData(ring)) % ring.bufferSize
          /\ ring'.spaceIndex = ring.spaceIndex
          /\ "buffer underrun" \in logLines'
          /\ IndicesInRange(ring')
          /\ Occupancy(ring') = Occupancy(ring) - hasData(ring)

\* C6: addData(n) with n above hasSpace() advances spaceIndex by exactly
\* hasSpace(), logs "buffer overrun", keeps both indices in range and does
\* not run into the bytes still held (dataIndex is untouched and the
\* occupancy grows by hasSpace() without exceeding C); removeData(n) with
\* n above hasData() advances dataIndex by exactly hasData(), logs
\* "buffer underrun" and keeps the indices in range.
C6_OverRequestIsClamped == [][C6_Step]_vars

\* C6 witness: an addData of the DWORD of -1 was clamped at the end of the
\* array, where spaceIndex wrapped to 0 behind a non-zero dataIndex.
C6_Witness ==
    /\ lastCall = [op |-> "addData", count |-> ToDWORD(-1)]
    /\ logLines = {"buffer overrun"}
    /\ ring.spaceIndex = 0
    /\ ring.dataIndex > 0

\* The two events of b agree with its occupancy.
EventsMatch(b) ==
    /\ b.notEmpty <=> Occupancy(b) > 0
    /\ b.notFull <=> Occupancy(b) < Capacity(b)

C3_State ==
    /\ rxBuffer.notEmpty <=> Occupancy(rxBuffer) > 0
    /\ txBuffer.notFull <=> Occupancy(txBuffer) < Capacity(txBuffer)
    /\ rxBuffer.notFull => Occupancy(rxBuffer) < Capacity(rxBuffer)
    /\ txBuffer.notEmpty => Occupancy(txBuffer) > 0

C3_Step ==
    /\ (writer' # writer /\ rxBuffer' # rxBuffer) => EventsMatch(rxBuffer')
    /\ (reader' # reader /\ txBuffer' # txBuffer) => EventsMatch(txBuffer')

C7_State ==
    reader.pc = "read" =>
        /\ hasSpace(txBuffer) > 0
        /\ reader.toRead > 0
        /\ reader.toRead <= hasSpace(txBuffer)

C7_Step ==
    /\ (reader'.pc = "read" /\ reader.pc # "read") =>
          /\ reader.pc = "hasSpace"
          /\ hasSpace(txBuffer) > 0
          /\ reader'.toRead = hasSpace(txBuffer)
    /\ (reader.pc = "hasSpace" /\ reader' # reader /\ hasSpace(txBuffer) = 0) =>
          reader'.pc = "wait"
    /\ (reader.pc = "wait" /\ reader' # reader) =>
          /\ txBuffer.notFull
          /\ reader'.pc = "hasSpace"

\* C7: while stdinReader has a _read outstanding, txBuffer.hasSpace() is
\* above 0 and the count asked for is above 0 and at most hasSpace(); a
\* _read is issued only from a hasSpace() that returned more than 0, for
\* exactly that count; a hasSpace() of 0 sends the thread to wait on
\* txBuffer.notFull, and it leaves the wait only when notFull is signalled
\* and only to call hasSpace() again.
C7_NoReadWithoutSpace == []C7_State /\ [][C7_Step]_vars

\* C7 witness: stdinReader is blocked on notFull with txBuffer full, a
\* byte having gone through the queue before.
C7_Witness ==
    /\ reader.pc = "wait"
    /\ hasSpace(txBuffer) = 0
    /\ ~txBuffer.notFull
    /\ txBuffer.dataIndex > 0

\* main left the loop through its exit test, not through the switch.
Graceful == main.pc = "done" /\ main.waited = "none"

\* C8: when main has left the loop through the exit test, (stdoutDone or
\* rxBuffer is empty) and (comDone or (stdinDone and txBuffer is empty)).
C8_GracefulExitPredicate ==
    Graceful =>
        /\ stdoutDone \/ (hasData(rxBuffer) = 0 /\ Occupancy(rxBuffer) = 0)
        /\ comDone \/ (stdinDone /\ hasData(txBuffer) = 0 /\ Occupancy(txBuffer) = 0)

\* C8 witness: a graceful exit with the port still usable, after a byte
\* went through txBuffer and stdin reached its end.
C8_Witness ==
    /\ Graceful
    /\ ~comDone
    /\ stdinDone
    /\ txBuffer.dataIndex > 0

\* C9: when main returns, exitCode is 4 if WaitForMultipleObjects failed,
\* 5 if it returned a value the switch does not know, and otherwise 6 if
\* comDone is set and 0 if it is not; so a graceful exit with comDone set
\* (stdinDone set, both queues empty) returns 6, and 0 is returned only
\* with comDone unset.
C9_ExitStatus ==
    main.pc = "done" =>
        /\ main.exitCode = CASE main.waited = "WAIT_FAILED" -> 4
                             [] main.waited = "WAIT_ABANDONED_0" -> 5
                             [] OTHER -> IF comDone THEN 6 ELSE 0
        /\ main.exitCode = 0 => ~comDone
        /\ (Graceful /\ comDone) => main.exitCode = 6

\* C9 witness: stdin ended with txBuffer empty, the port failed, rxBuffer
\* is empty, and main left through the exit test with 6.
C9_Witness ==
    /\ Graceful
    /\ stdinDone /\ Occupancy(txBuffer) = 0
    /\ comDone /\ Occupancy(rxBuffer) = 0
    /\ main.exitCode = 6

\* C10 as stated: the step stdinReader takes after _read returned -1 sets
\* stdinDone, ends the thread with a non-zero status and leaves txBuffer
\* as it was.
C10_AsStated ==
    [][(reader.pc = "failed" /\ reader' # reader) =>
          /\ stdinDone'
          /\ reader'.pc = "done"
          /\ reader'.status = "errno"
          /\ txBuffer' = txBuffer]_vars

\* C11 as stated: the step stdoutWriter takes after _write returned -1 sets
\* stdoutDone, ends the thread and leaves rxBuffer as it was.
C11_AsStated ==
    [][(writer.pc = "failed" /\ writer' # writer) =>
          /\ stdoutDone'
          /\ writer'.pc = "done"
          /\ rxBuffer' = rxBuffer]_vars

C12_State ==
    stdinDone =>
        /\ reader.pc = "done" /\ reader.status = "0"
        /\ reader.toRead = 0 /\ reader.wasRead = 0

C12_Step ==
    /\ (stdinDone' /\ ~stdinDone) =>
          /\ reader.pc = "read"
          /\ txBuffer' = txBuffer
          /\ logLines' = {}
    /\ stdinDone =>
          /\ txBuffer'.spaceIndex = txBuffer.spaceIndex
          /\ Occupancy(txBuffer') <= Occupancy(txBuffer)
          /\ stdinDone'

\* C12: the step that sets stdinDone is stdinReader's return from a _read
\* of zero bytes; it leaves txBuffer as it was and ends the thread with
\* status 0, no bytes read and not yet committed. Once stdinDone is set
\* nothing is ever added to txBuffer again and its occupancy only falls,
\* so stdinDone read TRUE followed by hasData() read as 0 means txBuffer is
\* empty for good: every byte stdin delivered has been removed by comTx.
C12_EndOfInput == []C12_State /\ [][C12_Step]_vars

\* C12 witness: stdin has ended after bytes went through txBuffer, and
\* comTx has removed them all.
C12_Witness ==
    /\ stdinDone
    /\ txBuffer.dataIndex > 0
    /\ hasData(txBuffer) = 0
    /\ ~comDone

\* An operation of one direction is outstanding at the port.
Outstanding(op) == op.st # "none"

\* The step hands a new operation of the direction to the port and the
\* port keeps it pending.
Issued(old, new) == new.st = "pending" /\ (old.st # "pending" \/ new # old)

C13_State ==
    /\ Outstanding(device.rx) <=> Unresolved(comRxError)
    /\ Outstanding(device.tx) <=> Unresolved(comTxError)
    /\ Outstanding(device.event) <=> Unresolved(comEventError)

C13_Step ==
    /\ Issued(device.rx, device'.rx) =>
          ~Outstanding(device.rx) /\ ~Unresolved(comRxError)
    /\ Issued(device.tx, device'.tx) =>
          ~Outstanding(device.tx) /\ ~Unresolved(comTxError)
    /\ Issued(device.event, device'.event) =>
          ~Outstanding(device.event) /\ ~Unresolved(comEventError)
    /\ (main.pc = "rx_loop" /\ main' # main /\ Unresolved(comRxError)) =>
          device'.rx.st # "pending" \/ device' = device
    /\ (main.pc = "tx_loop" /\ main' # main /\ Unresolved(comTxError)) =>
          device'.tx.st # "pending" \/ device' = device
    /\ (main.pc \in {"ev_loop", "ev_poll"} /\ main' # main /\ Unresolved(comEventError)) =>
          device'.event.st # "pending" \/ device' = device

\* C13: in each direction (receive, transmit, event-wait) the port holds an
\* operation exactly while the direction's error variable is
\* ERROR_IO_PENDING or ERROR_IO_INCOMPLETE; a new ReadFile, WriteFile or
\* WaitCommEvent is handed to the port only when it holds none for that
\* direction and the error variable is resolved; and a pass of comRx, comTx
\* or comEvent that finds its direction unresolved only polls.
C13_OneOperationPerDirection == []C13_State /\ [][C13_Step]_vars

\* C13 witness: a receive and a transmit are both pending, each polled
\* once already, while the event-wait is pending too.
C13_Witness ==
    /\ comRxError = ERROR_IO_INCOMPLETE /\ device.rx.st = "pending"
    /\ comTxError = ERROR_IO_INCOMPLETE /\ device.tx.st = "pending"
    /\ device.event.st = "pending"

\* Some device operation has failed hard.
HardFailure ==
    ERROR_OTHER \in {comRxError, comTxError, comEventError}

C14_Step ==
    /\ (~HardFailure /\ HardFailure') => comDone'
    /\ comDone =>
          /\ comDone'
          /\ <<comRxError, comTxError, comEventError, comEventMask>>' =
                <<comRxError, comTxError, comEventError, comEventMask>>
          /\ ~Issued(device.rx, device'.rx)
          /\ ~Issued(device.tx, device'.tx)
          /\ ~Issued(device.event, device'.event)
          /\ main' # main => device' = device /\ hEvent' = hEvent
          /\ (main.pc \in {"rx_loop", "tx_loop", "ev_loop"} /\ main' # main) =>
                main'.pc \in {main.rxRet, main.txRet, "check_stdoutDone"}

\* C14: comDone is set exactly when ReadFile, WriteFile, WaitCommEvent or a
\* GetOverlappedResult has returned an error other than pending/incomplete,
\* in the step that stores that error. From then on no step of main touches
\* the port or the three overlapped events: no operation is issued, none is
\* fetched, the three error variables and comEventMask keep their values,
\* and a call of comRx, comTx or comEvent returns from its loop test.
C14_HardFailureEndsDeviceUse == [](comDone <=> HardFailure) /\ [][C14_Step]_vars

\* C14 witness: after a hard failure of another direction, comTx is called
\* with its WriteFile completed at the port and still unfetched.
C14_Witness ==
    /\ comDone
    /\ main.pc = "tx_loop"
    /\ device.tx.st = "done" /\ Unresolved(comTxError)

\* ---- C15
\* C15 as stated: a retry made by the timeout issues exactly one operation,
\* so the call of comRx made from the WAIT_TIMEOUT case never gets to a
\* second ReadFile.  (The state a zero-byte completion leaves behind,
\* comRxError = ERROR_SUCCESS with no operation at the port, is the state
\* every such call starts in.)
C15_AsStated == main.rxRet = "timeout_tx" => main.issued <= 1

\* The pass of comRx (comTx) in which an operation completes with success
\* and zero bytes, at once or when its result is fetched.
ZeroByteRx ==
    /\ main.pc = "rx_loop" /\ main' # main /\ ~comDone
    /\ Unresolved(comRxError) \/ hasSpace(rxBuffer) > 0
    /\ comRxError' = ERROR_SUCCESS /\ main'.pc # "rx_add"
ZeroByteTx ==
    /\ main.pc = "tx_loop" /\ main' # main /\ ~comDone
    /\ Unresolved(comTxError) \/ hasData(txBuffer) > 0
    /\ comTxError' = ERROR_SUCCESS /\ main'.pc # "tx_remove"

\* The call of comRx made by the timeout starts its first pass with room in
\* rxBuffer and comRxError = ERROR_SUCCESS, so unless comDone is set that
\* pass calls ReadFile.
C15_State ==
    (main.rxRet = "timeout_tx" /\ main.pc \in {"rx_reset", "rx_loop"} /\ main.issued = 0)
        => hasSpace(rxBuffer) > 0 /\ comRxError = ERROR_SUCCESS

C15_Step ==
    /\ ZeroByteRx =>
          /\ ~comDone' /\ rxBuffer' = rxBuffer /\ logLines' = {}
          /\ ~Outstanding(device'.rx) /\ ~hEvent'.rx
          /\ main'.pc = main.rxRet
    /\ ZeroByteTx =>
          /\ ~comDone' /\ txBuffer' = txBuffer /\ logLines' = {}
          /\ ~Outstanding(device'.tx) /\ ~hEvent'.tx
          /\ main'.pc = main.txRet
    /\ (main.pc = "wait" /\ main'.pc = "timeout_rx") => Signalled = {}
    /\ (main.pc = "timeout_rx" /\ main' # main) =>
          /\ IF hasSpace(rxBuffer) # 0 /\ comRxError = ERROR_SUCCESS
             THEN main'.pc = "rx_reset" /\ main'.rxRet = "timeout_tx"
             ELSE main'.pc = "timeout_tx"
          /\ UNCHANGED <<rxBuffer, txBuffer, flagVars, comVars>>
    /\ (main.pc = "timeout_tx" /\ main' # main) =>
          /\ IF hasData(txBuffer) # 0 /\ comTxError = ERROR_SUCCESS
             THEN main'.pc = "tx_reset" /\ main'.txRet = "check_stdoutDone"
             ELSE main'.pc = "check_stdoutDone"
          /\ UNCHANGED <<rxBuffer, txBuffer, flagVars, comVars>>
    /\ (main.rxRet = "timeout_tx" /\ main.pc = "rx_loop" /\ main.issued = 0
          /\ ~comDone /\ main' # main) =>
          \/ main'.pc = "rx_add" /\ main'.issued = 1
          \/ main'.pc = "timeout_tx" /\ comRxError' = ERROR_SUCCESS
          \/ main'.pc = "timeout_tx" /\ comRxError' = ERROR_IO_PENDING
                /\ Issued(device.rx, device'.rx)
          \/ main'.pc = "timeout_tx" /\ comRxError' = ERROR_OTHER /\ comDone'

\* C15: a receive (transmit) that succeeds with zero bytes leaves comDone
\* unset and the queue untouched, logs nothing, leaves no operation at the
\* port and returns from comRx (comTx); a timeout happens only when nothing
\* is signalled and then calls comRx once if rxBuffer has room and
\* comRxError is ERROR_SUCCESS, and comTx once if txBuffer has data and
\* comTxError is ERROR_SUCCESS; unless comDone is set the call of comRx
\* issues a ReadFile in its first pass, and it goes on to further ones while
\* they complete at once with bytes and rxBuffer has room again.
C15_ZeroBytesThenRetry == []C15_State /\ [][C15_Step]_vars

\* The retry made by the timeout is at its second ReadFile.
C15_Witness ==
    main.rxRet = "timeout_tx" /\ main.pc = "rx_add" /\ main.issued = 2 /\ ~comDone

\* ---- C16
C16_Step ==
    /\ comDone => comDone'
    /\ stdinDone => stdinDone'
    /\ stdoutDone => stdoutDone'

\* C16: comDone, stdinDone and stdoutDone are FALSE at the start and no step
\* takes any of them from TRUE back to FALSE.
C16_FlagsMonotonic ==
    (~comDone /\ ~stdinDone /\ ~stdoutDone) /\ [][C16_Step]_vars

\* Both flags that can be set are set and the program is still running: the
\* main thread is inside a call of comRx made after comDone.
C16_Witness == comDone /\ stdinDone /\ main.pc = "rx_loop" /\ writer.pc # "done"

\* ---- C17
\* The program with a wait that never times out, in runs where no device
\* operation completes with zero bytes: Next without the WAIT_TIMEOUT case,
\* and comRx/comTx without their zero-byte outcomes.
ComRxLoopSomeBytes == ComRxLoop /\ ~ZeroByteRx
ComTxLoopSomeBytes == ComTxLoop /\ ~ZeroByteTx

NextNoTimeout ==
    \/ ReaderHasSpace \/ ReaderWait \/ ReaderRead \/ ReaderReadError \/ ReaderAfterError
    \/ WriterHasData \/ WriterWait \/ WriterWrite \/ WriterWriteError \/ WriterAfterError
    \/ DeviceRxCompletes \/ DeviceTxCompletes \/ DeviceEventCompletes
    \/ ComRxReset \/ ComRxLoopSomeBytes \/ ComRxAddData
    \/ ComTxReset \/ ComTxLoopSomeBytes \/ ComTxRemoveData
    \/ ComEventLoop \/ ComEventPoll \/ ComEventTx
    \/ MainCheckStdoutDone \/ MainCheckRxData \/ MainCheckStdinDone \/ MainCheckTxData
    \/ MainWaitSignalled
    \/ MainWaitFailed \/ MainWaitOther

SpecNoTimeout == Init /\ [][NextNoTimeout]_vars

\* The test main makes before each wait: exit gracefully.
ExitTest ==
    /\ stdoutDone \/ hasData(rxBuffer) = 0
    /\ comDone \/ (stdinDone /\ hasData(txBuffer) = 0)

\* C17 as stated: the graceful exit that the program reaches with timeouts
\* it reaches without them too, so with a wait that never times out main is
\* never left waiting, nothing signalled and both pumps at rest, in a state
\* where its exit test has become true since it was last evaluated.
C17_AsStated ==
    ~(/\ main.pc = "wait" /\ Signalled = {} /\ ExitTest
      /\ reader.pc = "done" /\ writer.pc = "wait")

\* ---- C18
\* The pass of comEvent in which the event-wait completes with success, at
\* once or when its result is fetched.
EventWaitCompletes ==
    /\ main.pc \in {"ev_loop", "ev_poll"} /\ main' # main
    /\ main.pc = "ev_loop" => ~comDone
    /\ comEventError' = ERROR_SUCCESS

\* The pass of comEvent that calls WaitCommEvent.
EventWaitReissued ==
    \/ comEventError' = ERROR_IO_PENDING /\ Issued(device.event, device'.event)
          /\ main'.pc = "ev_poll"
    \/ comEventError' = ERROR_SUCCESS /\ ~Outstanding(device'.event)
    \/ comEventError' = ERROR_OTHER /\ comDone'

C18_State ==
    /\ main.pc = "ev_tx" => main.rxRet = "none" /\ main.txRet = "none"
    /\ main.rxRet = "ev_tx" => main.pc \in {"rx_reset", "rx_loop", "rx_add"}
    /\ main.txRet = "ev_loop" => main.pc \in {"tx_reset", "tx_loop", "tx_remove"}
    /\ (main.pc = "ev_tx" \/ main.rxRet = "ev_tx" \/ main.txRet = "ev_loop") =>
          ~Unresolved(comEventError) /\ ~Outstanding(device.event)

C18_Step ==
    /\ EventWaitCompletes =>
          /\ IF "EV_RXCHAR" \in comEventMask'
             THEN main'.pc = "rx_reset" /\ main'.rxRet = "ev_tx"
             ELSE IF "EV_TXEMPTY" \in comEventMask'
                  THEN main'.pc = "tx_reset" /\ main'.txRet = "ev_loop"
                  ELSE main'.pc = "ev_loop"
          /\ ~hEvent'.event /\ ~Outstanding(device'.event)
          /\ hEvent'.rx = hEvent.rx /\ hEvent'.tx = hEvent.tx
          /\ device'.rx = device.rx /\ device'.tx = device.tx
          /\ UNCHANGED <<rxBuffer, txBuffer, flagVars, comRxError, comTxError>>
    /\ (main.rxRet = "ev_tx" /\ main' # main) => comEventMask' = comEventMask
    /\ (main.rxRet = "ev_tx" /\ main'.rxRet # "ev_tx") => main'.pc = "ev_tx"
    /\ (main.pc = "ev_tx" /\ main' # main) =>
          /\ IF "EV_TXEMPTY" \in comEventMask
             THEN main'.pc = "tx_reset" /\ main'.txRet = "ev_loop"
             ELSE main'.pc = "ev_loop"
          /\ UNCHANGED <<rxBuffer, txBuffer, flagVars, comVars>>
    /\ (main.txRet = "ev_loop" /\ main'.txRet # "ev_loop") => main'.pc = "ev_loop"
    /\ (main.pc = "ev_loop" /\ main' # main) =>
          IF comDone
          THEN /\ main'.pc = "check_stdoutDone"
               /\ UNCHANGED <<device, hEvent, comEventError, comEventMask>>
          ELSE IF Unresolved(comEventError)
               THEN ~Issued(device.event, device'.event)
               ELSE EventWaitReissued

\* C18: the pass of comEvent in which the event-wait completes with success
\* resets the event, touches nothing of the receive and transmit directions
\* itself, and goes on by the mask alone: comRx() if it holds EV_RXCHAR,
\* then comTx() if it holds EV_TXEMPTY, then back to the head of comEvent's
\* loop, where WaitCommEvent is called again unless comDone is set; with
\* comDone set comEvent returns without calling it.
C18_EventDispatch == []C18_State /\ [][C18_Step]_vars

\* The event-wait reported both categories besides a third one; comRx has
\* run and comTx is running on behalf of comEvent.
C18_Witness ==
    /\ main.txRet = "ev_loop" /\ main.pc = "tx_loop"
    /\ {"EV_RXCHAR", "EV_TXEMPTY"} \subseteq comEventMask
    /\ comEventMask # {"EV_RXCHAR", "EV_TXEMPTY"}

\* ---- C19
\* main returns from WaitForMultipleObjects with the value w and takes the
\* case of that value.
Wake(w) ==
    /\ main.pc = "wait" /\ Signalled # {} /\ WaitObject(Lowest(Signalled)) = w
    /\ main' # main /\ main'.pc # "done"

C19_State ==
    /\ (hEvent.rx /\ ~comDone) => device.rx.st = "done" /\ Unresolved(comRxError)
    /\ (hEvent.tx /\ ~comDone) => device.tx.st = "done" /\ Unresolved(comTxError)

C19_Step ==
    /\ Wake("WAIT_OBJECT_1") =>
          main'.pc = "rx_reset" /\ main'.rxRet = "check_stdoutDone"
    /\ Wake("WAIT_OBJECT_3") =>
          IF comRxError = ERROR_SUCCESS
          THEN main'.pc = "rx_reset" /\ main'.rxRet = "check_stdoutDone"
          ELSE main'.pc = "check_stdoutDone"
    /\ Wake("WAIT_OBJECT_2") =>
          main'.pc = "tx_reset" /\ main'.txRet = "check_stdoutDone"
    /\ Wake("WAIT_OBJECT_4") =>
          IF comTxError = ERROR_SUCCESS
          THEN main'.pc = "tx_reset" /\ main'.txRet = "check_stdoutDone"
          ELSE main'.pc = "check_stdoutDone"
    /\ (main.pc = "wait" /\ main' # main) =>
          UNCHANGED <<rxBuffer, txBuffer, flagVars, comVars>>
    /\ (main.pc = "rx_loop" /\ main.rxRet = "check_stdoutDone" /\ hEvent.rx
          /\ ~comDone /\ main' # main) =>
          /\ ~Outstanding(device'.rx) /\ ~Issued(device.rx, device'.rx)
          /\ comRxError' \in {ERROR_SUCCESS, ERROR_OTHER}
    /\ (main.pc = "tx_loop" /\ main.txRet = "check_stdoutDone" /\ hEvent.tx
          /\ ~comDone /\ main' # main) =>
          /\ ~Outstanding(device'.tx) /\ ~Issued(device.tx, device'.tx)
          /\ comTxError' \in {ERROR_SUCCESS, ERROR_OTHER}
    /\ (main.pc = "timeout_rx" /\ main' # main) =>
          (main'.pc = "rx_reset" <=>
              hasSpace(rxBuffer) # 0 /\ comRxError = ERROR_SUCCESS)
    /\ (main.pc = "timeout_tx" /\ main' # main) =>
          (main'.pc = "tx_reset" <=>
              hasData(txBuffer) # 0 /\ comTxError = ERROR_SUCCESS)

C20_State ==
    /\ Occupancy(rxBuffer) > 0 => rxBuffer.notEmpty
    /\ Occupancy(txBuffer) < Capacity(txBuffer) => txBuffer.notFull
    /\ (writer.pc = "wait" /\ ~rxBuffer.notEmpty) => hasData(rxBuffer) = 0
    /\ (reader.pc = "wait" /\ ~txBuffer.notFull) => hasSpace(txBuffer) = 0

C20_Step ==
    /\ Occupancy(rxBuffer') > Occupancy(rxBuffer) => rxBuffer'.notEmpty
    /\ Occupancy(txBuffer') < Occupancy(txBuffer) => txBuffer'.notFull

\* C20: rxBuffer.notEmpty is signalled whenever rxBuffer holds bytes and
\* txBuffer.notFull whenever txBuffer is not full, the step that adds bytes
\* to rxBuffer (takes bytes out of txBuffer) being the one that signals; so
\* stdoutWriter is never blocked on rxBuffer.notEmpty while rxBuffer has
\* data, nor stdinReader on txBuffer.notFull while txBuffer has space.
C20_NoLostWakeUp == []C20_State /\ [][C20_Step]_vars

\* Both pumps went to wait on a queue that has since changed: bytes were
\* added to rxBuffer and taken out of txBuffer, and both events are
\* signalled.
C20_Witness ==
    /\ writer.pc = "wait" /\ hasData(rxBuffer) > 0 /\ rxBuffer.notEmpty
    /\ reader.pc = "wait" /\ hasSpace(txBuffer) > 0 /\ txBuffer.notFull

\* ---- C21
\* main is about to wait, its exit test is false, and the lowest signalled
\* event is one whose case neither resets it nor does anything else: the
\* COM event once comDone is set (comEvent returns from its loop test), or
\* a queue event while the operation of that direction is unresolved (the
\* case is left by continue).
SpinState ==
    /\ main.pc = "wait" /\ Signalled # {} /\ ~ExitTest
    /\ LET waited == WaitObject(Lowest(Signalled))
       IN  \/ waited = "WAIT_OBJECT_0" /\ comDone
           \/ waited = "WAIT_OBJECT_3" /\ comRxError # ERROR_SUCCESS
           \/ waited = "WAIT_OBJECT_4" /\ comTxError # ERROR_SUCCESS

\* C21 as stated: every wake-up on a signalled event resets that event or
\* changes some state, so main never reaches a wait that returns the same
\* event again and again while no other thread and no device step happens.
C21_AsStated == ~SpinState

\* Every step main takes from a SpinState until it waits again changes
\* nothing but its own position, and it waits again in a SpinState.
SpinRound ==
    /\ ~ExitTest /\ Signalled # {}
    /\ main.pc \in {"wait", "ev_loop", "check_stdoutDone", "check_rxData",
                    "check_stdinDone", "check_txData"}
    /\ LET waited == WaitObject(Lowest(Signalled))
       IN  \/ waited = "WAIT_OBJECT_0" /\ comDone
           \/ waited = "WAIT_OBJECT_3" /\ comRxError # ERROR_SUCCESS /\ main.pc # "ev_loop"
           \/ waited = "WAIT_OBJECT_4" /\ comTxError # ERROR_SUCCESS /\ main.pc # "ev_loop"
SpinGoesOn ==
    [][(SpinRound /\ main' # main /\ main'.pc # "done") =>
          /\ SpinRound'
          /\ main' = [main EXCEPT !.pc = main'.pc]
          /\ UNCHANGED <<rxBuffer, txBuffer, flagVars, comVars, reader, writer>>]_vars

\* ---- C22
\* The count each caller is about to pass, and the length each outstanding
\* device operation was given, fit the run the queue has now.
C22_State ==
    /\ main.pc = "rx_add" => main.wasRead <= hasSpace(rxBuffer)
    /\ main.pc = "tx_remove" => main.wasWritten <= hasData(txBuffer)
    /\ reader.pc = "read" => reader.toRead <= hasSpace(txBuffer)
    /\ writer.pc = "write" => writer.toWrite <= hasData(rxBuffer)
    /\ Outstanding(device.rx) => device.rx.len <= hasSpace(rxBuffer)
    /\ Outstanding(device.tx) => device.tx.len <= hasData(txBuffer)

C22_Step ==
    \* overrun and underrun are logged only by the pass of a pump that
    \* follows a failed _read or _write
    /\ logLines' # {} =>
          \/ reader.pc = "failed" /\ reader' # reader
          \/ writer.pc = "failed" /\ writer' # writer
    \* the other side never shrinks the run
    /\ writer' # writer => hasSpace(rxBuffer') >= hasSpace(rxBuffer)
    /\ reader' # reader => hasData(txBuffer') >= hasData(txBuffer)
    /\ main' # main => /\ hasSpace(txBuffer') >= hasSpace(txBuffer)
                       /\ hasData(rxBuffer') >= hasData(rxBuffer)

\* C22: unless _read or _write has just failed, no call of addData or
\* removeData logs an overrun or underrun: the count passed, and the length
\* of every device operation from its issue to the fetch of its result, is
\* at most the hasSpace() or hasData() run of the queue as it is now,
\* because the steps of the other thread never make that run shorter.
C22_NoOverRequest == []C22_State /\ [][C22_Step]_vars

\* comTx is about to fetch the result of a WriteFile that was pending, and
\* stdinReader added a byte to txBuffer while it was: the run is longer
\* than the length the operation was given.
C22_Witness ==
    /\ main.pc = "tx_loop" /\ Unresolved(comTxError) /\ ~comDone
    /\ device.tx.st = "done" /\ device.tx.len < hasData(txBuffer)
    /\ reader.pc # "failed"

\* ---- C23
\* The slots of b that hold bytes committed and not yet removed.
Held(b) == {(b.dataIndex + k) % b.bufferSize : k \in 0 .. Occupancy(b) - 1}

ContiguousRuns(b) ==
    /\ b.dataIndex + hasData(b) <= b.bufferSize
    /\ b.spaceIndex + hasSpace(b) <= b.bufferSize
    /\ \A i \in 0 .. hasSpace(b) - 1 : b.spaceIndex + i \notin Held(b)
    /\ \A i \in 0 .. hasData(b) - 1 : b.dataIndex + i \in Held(b)
    /\ hasData(b) <= Occupancy(b)
    /\ hasData(b) = 0 <=> Occupancy(b) = 0
    /\ hasSpace(b) = 0 <=> Occupancy(b) = Capacity(b)

\* C23: after any sequence of addData and removeData calls on a RingBuffer
\* of capacity C, the hasData() run from dataIndex and the hasSpace() run
\* from spaceIndex end within the C+1 slots of the array, the hasSpace() run
\* holds no byte still to be removed, the hasData() run holds only such
\* bytes and is no longer than the occupancy, hasData() is 0 exactly when
\* the queue is empty and hasSpace() is 0 exactly when the occupancy is C.
C23_ContiguousRuns == ContiguousRuns(ring)

\* The bytes held wrap around the end of the array: hasData() is only the
\* part up to the end, and there is free space between the two indices.
C23_Witness ==
    /\ ring.spaceIndex < ring.dataIndex /\ ring.spaceIndex > 0
    /\ hasData(ring) < Occupancy(ring)
    /\ hasSpace(ring) > 0
    /\ lastCall.op = "addData"

\* ---- C24
\* The program as C24 assumes it: no hard failure of the port, no failure of
\* _read, _write or the wait, the three threads scheduled fairly and every
\* pending WriteFile completing.  rxBuffer gets the second byte here, so
\* that stdoutWriter can take a byte out while a ReadFile is pending.
InitTransmit ==
    /\ ring = RingBuffer(1)
    /\ buffer = <<>>
    /\ calls = <<>>
    /\ lastCall = [op |-> "none", count |-> 0]
    /\ prod = [pc |-> "idle", ptr |-> 0, n |-> 0]
    /\ cons = [pc |-> "idle", ptr |-> 0, n |-> 0]
    /\ committed = <<>>
    /\ consumed = <<>>
    /\ logLines = {}
    /\ rxBuffer = RingBuffer(TransmitRxCapacity)
    /\ txBuffer = RingBuffer(TransmitTxCapacity)
    /\ comDone = FALSE /\ stdinDone = FALSE /\ stdoutDone = FALSE
    /\ comRxError = ERROR_SUCCESS
    /\ comTxError = ERROR_SUCCESS
    /\ comEventError = ERROR_SUCCESS
    /\ comEventMask = {}
    /\ hEvent = [event |-> TRUE, rx |-> FALSE, tx |-> FALSE]
    /\ device = [event |-> NoOperation, rx |-> NoOperation, tx |-> NoOperation]
    /\ reader = [pc |-> "hasSpace", toRead |-> 0, wasRead |-> 0, status |-> "running"]
    /\ writer = [pc |-> "hasData", toWrite |-> 0, wasWritten |-> 0, status |-> "running"]
    /\ main = [pc |-> "check_stdoutDone", waited |-> "none", exitCode |-> 0,
               rxRet |-> "none", txRet |-> "none", wasRead |-> 0, wasWritten |-> 0,
               issued |-> 0]

ComRxLoopNoFailure == ComRxLoop /\ ~comDone'
ComTxLoopNoFailure == ComTxLoop /\ ~comDone'
ComEventLoopNoFailure == ComEventLoop /\ ~comDone'
ComEventPollNoFailure == ComEventPoll /\ ~comDone'

ReaderNext == ReaderHasSpace \/ ReaderWait \/ ReaderRead
WriterNext == WriterHasData \/ WriterWait \/ WriterWrite
MainNext ==
    \/ ComRxReset \/ ComRxLoopNoFailure \/ ComRxAddData
    \/ ComTxReset \/ ComTxLoopNoFailure \/ ComTxRemoveData
    \/ ComEventLoopNoFailure \/ ComEventPollNoFailure \/ ComEventTx
    \/ MainCheckStdoutDone \/ MainCheckRxData \/ MainCheckStdinDone \/ MainCheckTxData
    \/ MainWaitSignalled \/ MainWaitTimeout \/ MainTimeoutRx \/ MainTimeoutTx

NextTransmit ==
    \/ ReaderHasSpace \/ ReaderWait \/ ReaderRead
    \/ WriterHasData \/ WriterWait \/ WriterWrite
    \/ DeviceRxCompletes \/ DeviceTxCompletes \/ DeviceEventCompletes
    \/ ComRxReset \/ ComRxLoopNoFailure \/ ComRxAddData
    \/ ComTxReset \/ ComTxLoopNoFailure \/ ComTxRemoveData
    \/ ComEventLoopNoFailure \/ ComEventPollNoFailure \/ ComEventTx
    \/ MainCheckStdoutDone \/ MainCheckRxData \/ MainCheckStdinDone \/ MainCheckTxData
    \/ MainWaitSignalled \/ MainWaitTimeout \/ MainTimeoutRx \/ MainTimeoutTx

SpecTransmit ==
    /\ InitTransmit /\ [][NextTransmit]_vars
    /\ WF_vars(MainNext) /\ WF_vars(ReaderNext) /\ WF_vars(WriterNext)
    /\ WF_vars(DeviceTxCompletes)

\* txBuffer holds bytes and no WriteFile is outstanding, yet nothing but
\* the port completing a receive or an event-wait can bring main to comTx:
\* main is about to wait, the lowest signalled event is rxBuffer.notFull
\* with a ReadFile pending, whose case is left by continue, so that
\* txBuffer.notEmpty behind it is never returned and the wait never times
\* out; both pumps are blocked.
StarvedTx ==
    /\ hasData(txBuffer) > 0 /\ comTxError = ERROR_SUCCESS /\ ~Outstanding(device.tx)
    /\ main.pc = "wait" /\ Signalled # {}
    /\ WaitObject(Lowest(Signalled)) = "WAIT_OBJECT_3"
    /\ comRxError # ERROR_SUCCESS /\ device.rx.st = "pending"
    /\ device.event.st = "pending"
    /\ writer.pc = "wait" /\ ~rxBuffer.notEmpty
    /\ reader.pc = "done" \/ (reader.pc = "wait" /\ ~txBuffer.notFull)

\* C24 as stated: no reachable state leaves txBuffer non-empty with the
\* transmit direction idle and no wake-up to come that calls comTx.
C24_AsStated == ~StarvedTx

====
